---------------------------- MODULE Spec2Model ----------------------------
(***************************************************************************)
(* State-machine model of the hodgey_chess_engine search core              *)
(* (src/src/lib.rs, src/src/evaluation.rs).                                *)
(*                                                                         *)
(* The chess rules library (shakmaty) is an external collaborator.  It is  *)
(* represented by a finite family of abstract games: a game gives, for     *)
(* each position, the side to move, the outcome, the ordered legal move    *)
(* list (each move with its role, captured role and promotion flag), the   *)
(* Zobrist hash and the value evaluate_board returns on its board.         *)
(* Positions alternate sides and no game has a two-ply cycle.              *)
(*                                                                         *)
(* nega_max is a call stack of frames stepped one code block at a time;    *)
(* quiescence_search, move_score, capture_score and evaluate_board are     *)
(* pure functions and are operators.                                       *)
(***************************************************************************)
EXTENDS Integers, Sequences, FiniteSets, TLC

VARIABLES
    game,          \* index of the abstract game the Chess values come from
    rootPos,       \* chess: &Chess handed to the driver / to nega_max
    mode,          \* "depth": find_best_move_with_depth, "time": find_best_move_with_time
    max_depth,     \* max_depth: u16
    expired,       \* Instant::now() - start_time >= min_search_time has been observed
    tt,            \* transposition_table
    reps,          \* previously_seen_hashes
    stack,         \* active nega_max calls, innermost last
    ret,           \* <<v>>: value just returned by a nega_max call, <<>>: none pending
    dpc,           \* driver position
    moves,         \* driver: moves
    snapshot,      \* driver: moves.clone() being iterated
    index,         \* driver: index of the for loop (0-based)
    depth,         \* driver: depth
    best_score,    \* driver: best_score
    result,        \* <<m>> once the driver has returned move m
    history,       \* the caller-supplied repetition history (contents of reps at the call)
    calls,         \* number of nega_max invocations so far
    iterLog,       \* root moves scored in the current iteration: <<[move, score]>>
    lastOrder,     \* moves at the end of the last completed iteration
    completed,     \* depths of the completed iterations, in order
    aborted,       \* the time driver left the root loop by its budget break
    promoted,      \* root moves promoted in the current iteration, in order
    phase,         \* harness position (two-run specifications)
    saved,         \* harness: what the first run produced
    board,         \* board: &Board handed to evaluate_board
    evals          \* values evaluate_board has returned, in call order

vars == <<game, rootPos, mode, max_depth, expired, tt, reps, stack, ret, dpc,
          moves, snapshot, index, depth, best_score, result, history, calls,
          iterLog, lastOrder, completed, aborted, promoted, phase, saved,
          board, evals>>

-----------------------------------------------------------------------------
(* Program constants (src/src/lib.rs:16-20)                                *)

INFINITY == 2147483647

\* i32::MIN
I32Min == -2147483647 - 1

NEG_INFINITY == -INFINITY

REALLY_BIG_CHECKMATE_NUMBER == 100000000

\* log2 of the table length; the program has 23 (1024 * 1024 * 8 entries)
TableBits == 4

TRANSPOSITION_TABLE_LENGTH == 2 ^ TableBits

TABLE_INDEX_MASK == TRANSPOSITION_TABLE_LENGTH - 1

\* u16 and u8 widths
U16 == 65536

U8 == 256

Max(a, b) == IF a >= b THEN a ELSE b

Min(a, b) == IF a <= b THEN a ELSE b

Abs(a) == IF a >= 0 THEN a ELSE -a

\* hash as usize & TABLE_INDEX_MASK, the mask being 2^k - 1
TableIndex(hash) == hash % (TABLE_INDEX_MASK + 1)

\* TranspositionTableData::new()
NewEntry == [hash |-> 0, score |-> 0, depth |-> 0, best_move_index |-> 0, flag |-> "None"]

-----------------------------------------------------------------------------
(* The chess rules collaborator: abstract games.                           *)
(* A position is a number; odd positions have White to move, even ones     *)
(* Black.  legal[p] is chess.legal_moves() in the library's order,         *)
(* outcome[p] is chess.outcome(), eval[p] is what evaluate_board returns   *)
(* on chess.board(), hash[p] is the Zobrist hash, pieces[p] the number of  *)
(* pieces on the board (a capture removes one).                            *)

Quiet(q) == [to |-> q, role |-> "King", capture |-> "None", promotion |-> FALSE]

Capture(q, r, victim) == [to |-> q, role |-> r, capture |-> victim, promotion |-> FALSE]

Promotion(q) == [to |-> q, role |-> "Pawn", capture |-> "None", promotion |-> TRUE]

PromotionCapture(q, victim) == [to |-> q, role |-> "Pawn", capture |-> victim, promotion |-> TRUE]

\* An acyclic game in which position 4 and position 7 are reached at
\* several remaining depths.
GameDag ==
    [legal   |-> << <<Quiet(4), Quiet(2)>>, <<Quiet(3)>>, <<Quiet(4), Quiet(6)>>,
                    <<Quiet(7), Quiet(5)>>, <<Quiet(6)>>, <<Quiet(7)>>,
                    <<Quiet(8)>>, <<Quiet(9)>>, << >> >>,
     outcome |-> <<"None", "None", "None", "None", "None", "None", "None", "None", "Draw">>,
     eval    |-> <<0, 0, 0, 0, 0, 0, 0, -2, 0>>,
     hash    |-> <<1, 2, 3, 4, 5, 6, 7, 8, 9>>,
     pieces  |-> <<4, 4, 4, 4, 4, 4, 4, 4, 4>>,
     roots   |-> {1, 3, 4}]

\* A game with the four-ply cycle 2 -> 3 -> 4 -> 5 -> 2.
GameCycle ==
    [legal   |-> << <<Quiet(6), Quiet(2)>>, <<Quiet(3)>>, <<Quiet(4)>>, <<Quiet(5)>>,
                    <<Quiet(2)>>, <<Quiet(7)>>, <<Quiet(2), Quiet(4)>> >>,
     outcome |-> <<"None", "None", "None", "None", "None", "None", "None">>,
     eval    |-> <<0, -2, 0, -2, 0, 0, 0>>,
     hash    |-> <<1, 2, 3, 4, 5, 6, 7>>,
     pieces  |-> <<4, 4, 4, 4, 4, 4, 4>>,
     roots   |-> {1, 7, 3}]

\* Black mates at position 9; position 2 chooses between the mate in one
\* (2 -> 9) and the mate in three (2 -> 11 -> 4 -> 9).
GameMate ==
    [legal   |-> << <<Quiet(10)>>, <<Quiet(9), Quiet(11)>>, <<Quiet(6)>>, <<Quiet(9)>>,
                    <<Quiet(2)>>, <<Quiet(1)>>, <<Quiet(8), Quiet(12)>>, <<Quiet(3)>>,
                    << >>, <<Quiet(5)>>, <<Quiet(4)>>, <<Quiet(11)>> >>,
     outcome |-> <<"None", "None", "None", "None", "None", "None", "None", "None",
                   "Decisive", "None", "None", "None">>,
     eval    |-> <<0, 0, 0, 0, 0, 0, 0, 0, 0, 0, 0, 0>>,
     hash    |-> <<1, 2, 3, 4, 5, 6, 7, 8, 9, 10, 11, 12>>,
     pieces  |-> <<4, 4, 4, 4, 4, 4, 4, 4, 4, 4, 4, 4>>,
     roots   |-> {7}]

\* Captures, promotions, a checkmate (7), a stalemate (8), a position with
\* one legal move (3), the cycle 5 -> 6 -> 11 -> 12 -> 5, and two positions
\* (1 and 9) whose hashes share a table slot.
GameTactics ==
    [legal   |-> << <<Quiet(2), Capture(4, "Knight", "Rook"), Capture(6, "Queen", "Pawn"),
                      Quiet(8)>>,
                    <<Quiet(3), Capture(5, "Pawn", "Knight")>>,
                    <<Quiet(8)>>,
                    <<Capture(7, "Rook", "Knight"), Quiet(9)>>,
                    <<Capture(10, "King", "Pawn"), Quiet(6)>>,
                    <<Quiet(9), Quiet(11)>>,
                    << >>,
                    << >>,
                    <<Quiet(12)>>,
                    <<Quiet(7)>>,
                    <<Promotion(12), PromotionCapture(10, "Queen")>>,
                    <<Quiet(5)>> >>,
     outcome |-> <<"None", "None", "None", "None", "None", "None", "Decisive", "Draw",
                   "None", "None", "None", "None">>,
     eval    |-> <<0, 0, 1, 2, -3, 1, 0, 0, 2, -4, 1, 1>>,
     hash    |-> <<1, 2, 3, 4, 5, 6, 7, 8, 17, 10, 11, 12>>,
     pieces  |-> <<6, 6, 6, 5, 5, 5, 4, 6, 5, 4, 5, 5>>,
     roots   |-> {1, 2, 3, 5}]

\* Every legal move of the root stalemates.
GameStale ==
    [legal   |-> << <<Quiet(2), Quiet(4)>>, << >>, << >>, << >> >>,
     outcome |-> <<"None", "Draw", "Draw", "Draw">>,
     eval    |-> <<0, 0, 0, 0>>,
     hash    |-> <<1, 2, 3, 4>>,
     pieces  |-> <<3, 3, 3, 3>>,
     roots   |-> {1}]

\* Three single-file lines from the root: 2-3-4-5-6, 8-9-10-11-12-13 and
\* 14-7-6.  The first looks best two plies deep, the second four plies deep.
GameHorizon ==
    [legal   |-> << <<Quiet(2), Quiet(8), Quiet(14)>>, <<Quiet(3)>>, <<Quiet(4)>>,
                    <<Quiet(5)>>, <<Quiet(6)>>, << >>, <<Quiet(6)>>, <<Quiet(9)>>,
                    <<Quiet(10)>>, <<Quiet(11)>>, <<Quiet(12)>>, <<Quiet(13)>>, << >>,
                    <<Quiet(7)>> >>,
     outcome |-> <<"None", "None", "None", "None", "None", "Draw", "None", "None",
                   "None", "None", "None", "None", "Draw", "None">>,
     eval    |-> <<0, 0, 0, 1, 0, 0, 0, 0, 0, 0, 0, 3, 0, 0>>,
     hash    |-> <<1, 2, 3, 4, 5, 6, 7, 8, 9, 10, 11, 12, 13, 14>>,
     pieces  |-> <<4, 4, 4, 4, 4, 4, 4, 4, 4, 4, 4, 4, 4, 4>>,
     roots   |-> {1}]

\* Positions 3 (hash 18) and 5 (hash 34) share their table slot with their
\* parent, position 2.
GameCollide ==
    [legal   |-> << <<Quiet(2), Quiet(4)>>, <<Quiet(3), Quiet(5)>>, <<Quiet(6)>>, << >>,
                    <<Quiet(8)>>, <<Quiet(7)>>, <<Quiet(8)>>, << >> >>,
     outcome |-> <<"None", "None", "None", "Draw", "None", "None", "None", "Draw">>,
     eval    |-> <<0, 0, 0, 0, 0, 1, 0, 0>>,
     hash    |-> <<1, 2, 18, 4, 34, 6, 7, 8>>,
     pieces  |-> <<4, 4, 4, 4, 4, 4, 4, 4>>,
     roots   |-> {1}]

\* Three root moves, each better than the one before two plies deep.
GameRising ==
    [legal   |-> << <<Quiet(2), Quiet(4), Quiet(6)>>, <<Quiet(3)>>, <<Quiet(8)>>,
                    <<Quiet(5)>>, <<Quiet(10)>>, <<Quiet(7)>>, <<Quiet(12)>>,
                    <<Quiet(9)>>, << >>, <<Quiet(9)>>, << >>, <<Quiet(9)>> >>,
     outcome |-> <<"None", "None", "None", "None", "None", "None", "None", "None",
                   "Draw", "None", "Draw", "None">>,
     eval    |-> <<0, 0, 0, 0, 0, 0, 0, 1, 0, 2, 0, 3>>,
     hash    |-> <<1, 2, 3, 4, 5, 6, 7, 8, 9, 10, 11, 12>>,
     pieces  |-> <<4, 4, 4, 4, 4, 4, 4, 4, 4, 4, 4, 4>>,
     roots   |-> {1}]

\* Every piece besides the kings can be captured in turn: 1 -> 2 -> 3 -> 4
\* and 1 -> 2 -> 5 -> 4 are captures down to the bare kings of position 4.
GameExchange ==
    [legal   |-> << <<Quiet(6), Capture(2, "Pawn", "Knight")>>,
                    <<Capture(3, "Rook", "Pawn"), Capture(5, "King", "Pawn")>>,
                    <<Capture(4, "King", "Rook")>>,
                    << >>,
                    <<Capture(4, "King", "Rook")>>,
                    << >> >>,
     outcome |-> <<"None", "None", "None", "Draw", "None", "Draw">>,
     eval    |-> <<0, 1, -2, 0, 3, 0>>,
     hash    |-> <<1, 2, 3, 4, 5, 6>>,
     pieces  |-> <<5, 4, 3, 2, 3, 5>>,
     roots   |-> {1}]

Games ==
    <<GameDag, GameCycle, GameMate, GameTactics, GameStale, GameHorizon, GameCollide,
      GameRising, GameExchange>>

\* chess.outcome(): "None", "Draw" or "Decisive"
Outcome(p) == Games[game].outcome[p]

\* chess.legal_moves()
LegalMoves(p) == Games[game].legal[p]

\* chess.zobrist_hash(EnPassantMode::Legal).0
HashOf(p) == Games[game].hash[p]

\* chess.turn().is_white()
IsWhite(p) == p % 2 = 1

\* evaluate_board(chess.board())
BoardEval(p) == Games[game].eval[p]

\* the number of pieces on chess.board(), kings included
PieceCount(p) == Games[game].pieces[p]

\* chess.capture_moves(): the legal moves that capture, in the library's order
CaptureMoves(p) == SelectSeq(LegalMoves(p), LAMBDA m : m.capture # "None")

Range(s) == {s[i] : i \in 1..Len(s)}

-----------------------------------------------------------------------------
(* Move ordering keys (src/src/evaluation.rs:55-92)                        *)

AttackerValue(r) ==
    CASE r = "Pawn" -> 1
      [] r = "Bishop" -> 3
      [] r = "Knight" -> 3
      [] r = "Rook" -> 5
      [] OTHER -> 9

\* a victim table that does not tell the roles apart
FlatVictim(r) == 10

VictimValue(r) ==
    CASE r = "Pawn" -> 10
      [] r = "Bishop" -> 30
      [] r = "Knight" -> 30
      [] r = "Rook" -> 50
      [] OTHER -> 90

move_score(m) ==
    LET score == IF m.promotion THEN 60 ELSE 0
    IN  IF m.capture # "None"
        THEN score + (AttackerValue(m.role) - VictimValue(m.capture))
        ELSE score

capture_score(m) == AttackerValue(m.role) - VictimValue(m.capture)

\* sort_unstable_by_key on a short slice is an insertion sort: elements
\* with equal keys keep their relative order.  keys[i] is the key of s[i].
SortByKey(s, keys) ==
    LET Before(i, j) == keys[i] < keys[j] \/ (keys[i] = keys[j] /\ i < j)
        Place(i) == 1 + Cardinality({j \in 1..Len(s) : Before(j, i)})
    IN  [n \in 1..Len(s) |-> s[CHOOSE i \in 1..Len(s) : Place(i) = n]]

\* chess.legal_moves() followed by sort_unstable_by_key(move_score)
SortedMoves(p) ==
    SortByKey(LegalMoves(p), [i \in 1..Len(LegalMoves(p)) |-> move_score(LegalMoves(p)[i])])

\* a capture list that holds the quiet moves as well
EveryMove(p) == SortedMoves(p)

\* chess.capture_moves() followed by sort_unstable_by_key(capture_score)
SortedCaptures(p) ==
    SortByKey(CaptureMoves(p), [i \in 1..Len(CaptureMoves(p)) |-> capture_score(CaptureMoves(p)[i])])

-----------------------------------------------------------------------------
(* quiescence_search (src/src/lib.rs:249-278)                              *)

\* a leaf value that is the static evaluation whatever the window
StandPatOnly(p, alpha, beta) == BoardEval(p) * (IF IsWhite(p) THEN 1 ELSE -1)

RECURSIVE quiescence_search(_, _, _), QuiescenceLoop(_, _, _)

quiescence_search(p, alpha, beta) ==
    LET stand_pat == BoardEval(p) * (IF IsWhite(p) THEN 1 ELSE -1)
    IN  IF stand_pat >= beta
        THEN beta
        ELSE QuiescenceLoop(SortedCaptures(p),
                            IF alpha < stand_pat THEN stand_pat ELSE alpha, beta)

\* the for loop over capture_moves, caps being the moves not yet tried
QuiescenceLoop(caps, alpha, beta) ==
    IF caps = << >>
    THEN alpha
    ELSE LET score == -quiescence_search(Head(caps).to, -beta, -alpha)
         IN  IF score >= beta
             THEN beta
             ELSE QuiescenceLoop(Tail(caps), IF score > alpha THEN score ELSE alpha, beta)

-----------------------------------------------------------------------------
(* nega_max (src/src/lib.rs:144-247) as a stack of frames.                 *)
(* A frame holds the parameters and locals of one call; pc is the place    *)
(* the call has reached: "entry", "pv_ret" (waiting for the table move's   *)
(* child), "loop" (head of the for loop), "loop_ret" (waiting for a loop   *)
(* child), "exit" (after the loop).  entryReps and lines are bookkeeping:  *)
(* the repetition stack at entry, and the children searched so far with    *)
(* the score received, the alpha it was compared with and the index of     *)
(* the move in the sorted list.                                            *)

NewFrame(p, d, a, b, r) ==
    [pos |-> p, depth |-> d, alpha |-> a, beta |-> b, original_alpha |-> a,
     value |-> NEG_INFINITY, best_move_index |-> 0, moves |-> << >>, index |-> 0,
     pc |-> "entry", entryReps |-> r, lines |-> << >>]

Top == stack[Len(stack)]

Pop(s) == SubSeq(s, 1, Len(s) - 1)

ReplaceTop(f) == [stack EXCEPT ![Len(stack)] = f]

\* a call that leaves its hash on the repetition stack
KeepHash(r) == r

\* a call that does not put its hash on the repetition stack
NoPush(r, h) == r

\* line 186: previously_seen_hashes.push(hash)
PushHash(r, h) == Append(r, h)

\* line 227: previously_seen_hashes.pop()
PopHash(r) == SubSeq(r, 1, Len(r) - 1)

\* transposition_table[table_index] of the running call
Slot(f) == tt[TableIndex(HashOf(f.pos))]

untouchedByNegaMax ==
    <<game, rootPos, mode, max_depth, expired, dpc, moves, snapshot, index, depth,
      best_score, result, history, iterLog, lastOrder, completed, aborted,
      promoted, phase, saved, board, evals>>

\* the call at the top of the stack is running (not waiting for a child)
Running(label) == stack # << >> /\ ret = << >> /\ Top.pc = label

\* a child of the call at the top of the stack has just returned
Returned(label) == stack # << >> /\ ret # << >> /\ Top.pc = label

\* lines 147-152
NmTerminal ==
    /\ Running("entry")
    /\ Outcome(Top.pos) # "None"
    /\ ret' = <<IF Outcome(Top.pos) = "Draw" THEN 0
                ELSE -REALLY_BIG_CHECKMATE_NUMBER - Top.depth>>
    /\ stack' = Pop(stack)
    /\ UNCHANGED <<tt, reps, calls>>
    /\ UNCHANGED untouchedByNegaMax

\* lines 154-161
NmRepetition ==
    /\ Running("entry")
    /\ Outcome(Top.pos) = "None"
    /\ HashOf(Top.pos) \in Range(reps)
    /\ ret' = <<0>>
    /\ stack' = Pop(stack)
    /\ UNCHANGED <<tt, reps, calls>>
    /\ UNCHANGED untouchedByNegaMax

\* a call that only tests the outcome
OnlyOutcome(f) == Outcome(f.pos) = "None"

\* the call got past the outcome and repetition tests
PastDraws(f) == Outcome(f.pos) = "None" /\ HashOf(f.pos) \notin Range(reps)

\* lines 163-165
NmLeaf ==
    /\ Running("entry")
    /\ PastDraws(Top)
    /\ Top.depth = 0
    /\ ret' = <<quiescence_search(Top.pos, Top.alpha, Top.beta)>>
    /\ stack' = Pop(stack)
    /\ UNCHANGED <<tt, reps, calls>>
    /\ UNCHANGED untouchedByNegaMax

\* a probe that does not compare depths
HashOnly(f) == Slot(f).hash = HashOf(f.pos)

\* line 170
ProbeHit(f) == Slot(f).hash = HashOf(f.pos) /\ Slot(f).depth >= f.depth

\* alpha and beta after lines 170-180
ProbeAlpha(f) ==
    IF ProbeHit(f) /\ Slot(f).flag = "Lowerbound" THEN Max(f.alpha, Slot(f).score) ELSE f.alpha

ProbeBeta(f) ==
    IF ProbeHit(f) /\ Slot(f).flag = "Upperbound" THEN Min(f.beta, Slot(f).score) ELSE f.beta

\* lines 170-173
NmProbeExact ==
    /\ Running("entry")
    /\ PastDraws(Top)
    /\ Top.depth # 0
    /\ ProbeHit(Top)
    /\ Slot(Top).flag = "Exact"
    /\ ret' = <<Slot(Top).score>>
    /\ stack' = Pop(stack)
    /\ UNCHANGED <<tt, reps, calls>>
    /\ UNCHANGED untouchedByNegaMax

\* lines 174-183
NmProbeCutoff ==
    /\ Running("entry")
    /\ PastDraws(Top)
    /\ Top.depth # 0
    /\ ProbeHit(Top)
    /\ Slot(Top).flag # "Exact"
    /\ ProbeAlpha(Top) >= ProbeBeta(Top)
    /\ ret' = <<Slot(Top).score>>
    /\ stack' = Pop(stack)
    /\ UNCHANGED <<tt, reps, calls>>
    /\ UNCHANGED untouchedByNegaMax

\* the call neither returned a draw, nor a leaf value, nor a table score
Searches(f) ==
    /\ PastDraws(f)
    /\ f.depth # 0
    /\ ~(ProbeHit(f) /\ (Slot(f).flag = "Exact" \/ ProbeAlpha(f) >= ProbeBeta(f)))

\* line 195
HasTableMove(f) ==
    Slot(f).hash = HashOf(f.pos) /\ Slot(f).best_move_index < Len(SortedMoves(f.pos))

\* lines 167-201 when the table names a move: the call pushes its hash,
\* sorts its moves and searches the table move first
NmExpandPv ==
    /\ Running("entry")
    /\ Searches(Top)
    /\ HasTableMove(Top)
    /\ LET f == Top
           ms == SortedMoves(f.pos)
           bmi == Slot(f).best_move_index
           g == [f EXCEPT !.alpha = ProbeAlpha(f), !.beta = ProbeBeta(f),
                          !.original_alpha = f.alpha, !.moves = ms,
                          !.best_move_index = bmi, !.pc = "pv_ret"]
           r == PushHash(reps, HashOf(f.pos))
       IN  /\ reps' = r
           /\ stack' = Append(ReplaceTop(g),
                              NewFrame(ms[bmi + 1].to, f.depth - 1, -g.beta, -g.alpha, r))
    /\ calls' = calls + 1
    /\ UNCHANGED <<tt, ret>>
    /\ UNCHANGED untouchedByNegaMax

\* lines 167-206 when the table names no move
NmExpandNoPv ==
    /\ Running("entry")
    /\ Searches(Top)
    /\ ~HasTableMove(Top)
    /\ LET f == Top
           g == [f EXCEPT !.alpha = ProbeAlpha(f), !.beta = ProbeBeta(f),
                          !.original_alpha = f.alpha, !.moves = SortedMoves(f.pos),
                          !.pc = IF ProbeAlpha(f) >= ProbeBeta(f) THEN "exit" ELSE "loop"]
       IN  /\ reps' = PushHash(reps, HashOf(f.pos))
           /\ stack' = ReplaceTop(g)
    /\ UNCHANGED <<tt, ret, calls>>
    /\ UNCHANGED untouchedByNegaMax

\* lines 199-206: the table move's child has returned
NmPvReturn ==
    /\ Returned("pv_ret")
    /\ LET f == Top
           score == -ret[1]
           v == Max(f.value, score)
           a == Max(f.alpha, v)
           g == [f EXCEPT !.value = v, !.alpha = a, !.index = 0,
                          !.pc = IF a >= f.beta THEN "exit" ELSE "loop",
                          !.lines = Append(f.lines,
                                           [to |-> f.moves[f.best_move_index + 1].to,
                                            score |-> score, alpha |-> f.alpha,
                                            index |-> f.best_move_index])]
       IN  stack' = ReplaceTop(g)
    /\ ret' = << >>
    /\ UNCHANGED <<tt, reps, calls>>
    /\ UNCHANGED untouchedByNegaMax

\* line 208, read from the table as it is now
SkipsIndex(f) ==
    Slot(f).hash = HashOf(f.pos) /\ f.index = Slot(f).best_move_index

\* lines 207-210: continue
NmLoopSkip ==
    /\ Running("loop")
    /\ Top.index < Len(Top.moves)
    /\ SkipsIndex(Top)
    /\ stack' = ReplaceTop([Top EXCEPT !.index = Top.index + 1])
    /\ UNCHANGED <<tt, reps, ret, calls>>
    /\ UNCHANGED untouchedByNegaMax

\* lines 207-215: the loop searches moves[index]
NmLoopCall ==
    /\ Running("loop")
    /\ Top.index < Len(Top.moves)
    /\ ~SkipsIndex(Top)
    /\ LET f == Top
       IN  stack' = Append(ReplaceTop([f EXCEPT !.pc = "loop_ret"]),
                           NewFrame(f.moves[f.index + 1].to, f.depth - 1,
                                    -f.beta, -f.alpha, reps))
    /\ calls' = calls + 1
    /\ UNCHANGED <<tt, reps, ret>>
    /\ UNCHANGED untouchedByNegaMax

\* lines 214-223: a loop child has returned
NmLoopReturn ==
    /\ Returned("loop_ret")
    /\ LET f == Top
           score == -ret[1]
           a == Max(f.alpha, score)
           line == [to |-> f.moves[f.index + 1].to, score |-> score, alpha |-> f.alpha,
                    index |-> f.index]
           g == IF score > f.value
                THEN [f EXCEPT !.value = score, !.best_move_index = f.index,
                               !.alpha = a, !.index = f.index + 1,
                               !.pc = IF a >= f.beta THEN "exit" ELSE "loop",
                               !.lines = Append(f.lines, line)]
                ELSE [f EXCEPT !.index = f.index + 1, !.pc = "loop",
                               !.lines = Append(f.lines, line)]
       IN  stack' = ReplaceTop(g)
    /\ ret' = << >>
    /\ UNCHANGED <<tt, reps, calls>>
    /\ UNCHANGED untouchedByNegaMax

\* lines 235-243
FlagFor(value, original_alpha, beta) ==
    IF value <= original_alpha THEN "Upperbound"
    ELSE IF value >= beta THEN "Lowerbound"
    ELSE "Exact"

\* a store that replaces whatever the slot holds
AlwaysStored(f) ==
    [hash |-> HashOf(f.pos), score |-> f.value, depth |-> f.depth,
     best_move_index |-> f.best_move_index % U8,
     flag |-> FlagFor(f.value, f.original_alpha, f.beta)]

\* lines 229-244: the entry the call leaves in its slot
StoredEntry(f) ==
    IF Slot(f).depth < f.depth
    THEN [hash |-> HashOf(f.pos), score |-> f.value, depth |-> f.depth,
          best_move_index |-> f.best_move_index % U8,
          flag |-> FlagFor(f.value, f.original_alpha, f.beta)]
    ELSE Slot(f)

\* the call has left its loop (by break, by exhausting the moves, or by
\* never entering it)
LeavesLoop(f) == f.pc = "exit" \/ (f.pc = "loop" /\ f.index >= Len(f.moves))

\* lines 227-246: pop the hash, store, return value
NmExit ==
    /\ stack # << >>
    /\ ret = << >>
    /\ LeavesLoop(Top)
    /\ reps' = PopHash(reps)
    /\ tt' = [tt EXCEPT ![TableIndex(HashOf(Top.pos))] = StoredEntry(Top)]
    /\ ret' = <<Top.value>>
    /\ stack' = Pop(stack)
    /\ UNCHANGED calls
    /\ UNCHANGED untouchedByNegaMax

NegaMaxStep ==
    \/ NmTerminal
    \/ NmRepetition
    \/ NmLeaf
    \/ NmProbeExact
    \/ NmProbeCutoff
    \/ NmExpandPv
    \/ NmExpandNoPv
    \/ NmPvReturn
    \/ NmLoopSkip
    \/ NmLoopCall
    \/ NmLoopReturn
    \/ NmExit

-----------------------------------------------------------------------------
(* The root drivers (src/src/lib.rs:52-142).                               *)
(* dpc is the driver's position: "start", "while" (the loop condition),    *)
(* "for" (head of the root-move loop), "score" (nega_max running or just   *)
(* returned), "after_for" (the time driver broke out of the root-move      *)
(* loop), "return" (the final return statement), "done", and "panic".      *)

\* vec![TranspositionTableData::new(); TRANSPOSITION_TABLE_LENGTH]
FreshTable == [i \in 0..(TRANSPOSITION_TABLE_LENGTH - 1) |-> NewEntry]

\* moves.swap(i, j), 0-based
Swap(ms, i, j) == [ms EXCEPT ![i + 1] = ms[j + 1], ![j + 1] = ms[i + 1]]

RECURSIVE SwapDown(_, _)

\* for i in (0..=top).rev() { moves.swap(i, i+1) }
SwapDown(ms, top) == IF top < 0 THEN ms ELSE SwapDown(Swap(ms, top, top + 1), top - 1)

\* a promotion that exchanges the new best move with the head of the list
SwapFirst(ms, idx) == Swap(ms, 0, idx)

\* a promotion that reverses the moves up to the new best one
ReversePrefix(ms, idx) ==
    [i \in 1..Len(ms) |-> IF i <= idx + 1 THEN ms[idx + 2 - i] ELSE ms[i]]

\* lines 74-76 / 125-127: for i in (0..index).rev() { moves.swap(i, i+1) }
Promote(ms, idx) == SwapDown(ms, idx - 1)

\* a promotion test that also accepts ties
ImprovesOrTies(score, best) == score >= best

\* line 72: the depth driver's test for a new best root move
DepthImproves(score, best) == score > best

\* line 123: the time driver's test for a new best root move
TimeImproves(score, best) == score > best

\* a driver without the single-move return
NeverOnlyMove(ms) == FALSE

\* lines 57 and 102: moves.len() == 1
OnlyMove(ms) == Len(ms) = 1

ghostVars == <<calls, iterLog, lastOrder, completed, aborted, promoted>>

setupVars == <<game, rootPos, mode, max_depth, history>>

evalVars == <<board, evals>>

\* lines 53-61 and 98-108: table, legal moves, single-move return, depth = 2
DriverStart ==
    /\ dpc = "start"
    /\ tt' = FreshTable
    /\ moves' = LegalMoves(rootPos)
    /\ lastOrder' = LegalMoves(rootPos)
    /\ IF OnlyMove(LegalMoves(rootPos))
       THEN /\ result' = <<LegalMoves(rootPos)[1]>>
            /\ dpc' = "done"
            /\ depth' = depth
       ELSE /\ depth' = 2
            /\ dpc' = "while"
            /\ result' = result
    /\ UNCHANGED <<reps, stack, ret, snapshot, index, best_score>>
    /\ UNCHANGED <<calls, iterLog, completed, aborted, promoted>>
    /\ UNCHANGED <<setupVars, evalVars>>

\* lines 64-66 and 111-113: best_score, moves.clone()
BeginIteration ==
    /\ best_score' = NEG_INFINITY
    /\ snapshot' = moves
    /\ index' = 0
    /\ dpc' = "for"
    /\ iterLog' = << >>
    /\ promoted' = << >>
    /\ UNCHANGED <<tt, reps, stack, ret, moves, depth, result>>
    /\ UNCHANGED <<calls, lastOrder, completed, aborted>>
    /\ UNCHANGED <<setupVars, evalVars>>

\* lines 67-71 and 118-122: play the move, call nega_max
RootCall ==
    /\ stack' = <<NewFrame(snapshot[index + 1].to, depth, NEG_INFINITY, -best_score, reps)>>
    /\ calls' = calls + 1
    /\ dpc' = "score"
    /\ UNCHANGED <<tt, reps, ret, moves, snapshot, index, depth, best_score, result>>
    /\ UNCHANGED <<iterLog, lastOrder, completed, aborted, promoted>>
    /\ UNCHANGED <<setupVars, evalVars>>

\* lines 70-77 and 121-128: negate the returned value, promote on improvement
RootScore(improved) ==
    /\ LET score == -ret[1]
       IN  /\ iterLog' = Append(iterLog, [move |-> snapshot[index + 1], score |-> score])
           /\ IF improved
              THEN /\ best_score' = score
                   /\ moves' = Promote(moves, index)
                   /\ promoted' = Append(promoted, snapshot[index + 1])
              ELSE UNCHANGED <<best_score, moves, promoted>>
    /\ ret' = << >>
    /\ index' = index + 1
    /\ dpc' = "for"
    /\ UNCHANGED <<tt, reps, stack, snapshot, depth, result>>
    /\ UNCHANGED <<calls, lastOrder, completed, aborted>>
    /\ UNCHANGED <<setupVars, evalVars>>

\* lines 83-87 and 134-138: mate break, depth += 2 on a u16.  On overflow
\* a build with overflow checks panics, one without wraps around.
EndIteration ==
    /\ IF Abs(best_score) >= REALLY_BIG_CHECKMATE_NUMBER
       THEN dpc' = "return" /\ depth' = depth
       ELSE IF depth + 2 < U16
       THEN dpc' = "while" /\ depth' = depth + 2
       ELSE \E overflow_checks \in BOOLEAN :
               IF overflow_checks
               THEN dpc' = "panic" /\ depth' = depth
               ELSE dpc' = "while" /\ depth' = (depth + 2) % U16
    /\ UNCHANGED <<tt, reps, stack, ret, moves, snapshot, index, best_score, result>>
    /\ UNCHANGED <<calls, iterLog, promoted>>
    /\ UNCHANGED <<setupVars, evalVars>>

\* lines 90 and 141: return moves[0].clone()
DriverReturn ==
    /\ result' = <<moves[1]>>
    /\ dpc' = "done"
    /\ UNCHANGED <<tt, reps, stack, ret, moves, snapshot, index, depth, best_score>>
    /\ UNCHANGED ghostVars
    /\ UNCHANGED <<setupVars, evalVars>>

-----------------------------------------------------------------------------
(* Bounds of the model                                                     *)

\* largest max_depth explored; the time driver's budget runs out at the
\* latest when depth reaches it
MaxDepth == 9

\* longest caller-supplied repetition history
MaxHistory == 1

\* root iterations after which the model stops following a run
MaxIterations == 32770

\* hashes a caller-supplied history is built from
HistoryHashes == {3, 6}

RECURSIVE SeqsUpTo(_)

SeqsUpTo(n) ==
    IF n = 0 THEN {<< >>}
    ELSE SeqsUpTo(n - 1) \cup
         {Append(s, h) : s \in {t \in SeqsUpTo(n - 1) : Len(t) = n - 1}, h \in HistoryHashes}

Histories == SeqsUpTo(MaxHistory)

-----------------------------------------------------------------------------
(* find_best_move_with_depth (src/src/lib.rs:52-91)                        *)

DepthStart ==
    /\ mode = "depth"
    /\ DriverStart
    /\ UNCHANGED <<expired, phase, saved>>

\* line 63, condition true
DepthWhile ==
    /\ mode = "depth"
    /\ dpc = "while"
    /\ depth < max_depth
    /\ completed < MaxIterations
    /\ BeginIteration
    /\ UNCHANGED <<expired, phase, saved>>

\* lines 66-71
DepthFor ==
    /\ mode = "depth"
    /\ dpc = "for"
    /\ index < Len(snapshot)
    /\ RootCall
    /\ UNCHANGED <<expired, phase, saved>>

\* lines 70-77
DepthScore ==
    /\ mode = "depth"
    /\ dpc = "score"
    /\ stack = << >>
    /\ ret # << >>
    /\ RootScore(DepthImproves(-ret[1], best_score))
    /\ UNCHANGED <<expired, phase, saved>>

\* lines 78-88: the for loop is exhausted
DepthIterEnd ==
    /\ mode = "depth"
    /\ dpc = "for"
    /\ index >= Len(snapshot)
    /\ EndIteration
    /\ completed' = completed + 1
    /\ lastOrder' = moves
    /\ UNCHANGED <<aborted, expired, phase, saved>>

\* line 63 with the condition false, or after the break of line 84; line 90
DepthReturn ==
    /\ mode = "depth"
    /\ dpc = "return" \/ (dpc = "while" /\ ~(depth < max_depth))
    /\ DriverReturn
    /\ UNCHANGED <<expired, phase, saved>>

DepthDriver ==
    \/ DepthStart
    \/ DepthWhile
    \/ DepthFor
    \/ DepthScore
    \/ DepthIterEnd
    \/ DepthReturn

-----------------------------------------------------------------------------
(* find_best_move_with_time (src/src/lib.rs:97-142).                       *)
(* Instant::now() - start_time < min_search_time is an observation of the  *)
(* clock: it may turn false at any check, and stays false afterwards.      *)

TimeStart ==
    /\ mode = "time"
    /\ DriverStart
    /\ UNCHANGED <<expired, phase, saved>>

\* line 110, the budget is not used up
TimeWhile ==
    /\ mode = "time"
    /\ dpc = "while"
    /\ ~expired
    /\ depth < MaxDepth
    /\ BeginIteration
    /\ UNCHANGED <<expired, phase, saved>>

\* lines 113-122, the budget is not used up
TimeFor ==
    /\ mode = "time"
    /\ dpc = "for"
    /\ index < Len(snapshot)
    /\ ~expired
    /\ RootCall
    /\ UNCHANGED <<expired, phase, saved>>

\* lines 114-116: break
TimeBreak ==
    /\ mode = "time"
    /\ dpc = "for"
    /\ index < Len(snapshot)
    /\ expired' = TRUE
    /\ aborted' = TRUE
    /\ dpc' = "after_for"
    /\ UNCHANGED <<tt, reps, stack, ret, moves, snapshot, index, depth, best_score, result>>
    /\ UNCHANGED <<calls, iterLog, lastOrder, completed, promoted, phase, saved>>
    /\ UNCHANGED <<setupVars, evalVars>>

\* lines 121-128
TimeScore ==
    /\ mode = "time"
    /\ dpc = "score"
    /\ stack = << >>
    /\ ret # << >>
    /\ RootScore(TimeImproves(-ret[1], best_score))
    /\ UNCHANGED <<expired, phase, saved>>

\* lines 130-138, after the for loop ended or was broken out of
TimeIterEnd ==
    /\ mode = "time"
    /\ dpc = "after_for" \/ (dpc = "for" /\ index >= Len(snapshot))
    /\ EndIteration
    /\ IF dpc = "for"
       THEN completed' = completed + 1 /\ lastOrder' = moves
       ELSE UNCHANGED <<completed, lastOrder>>
    /\ UNCHANGED <<aborted, expired, phase, saved>>

\* line 110 with the budget used up, or after the break of line 135; line 141
TimeReturn ==
    /\ mode = "time"
    /\ dpc = "return" \/ dpc = "while"
    /\ expired' = IF dpc = "while" THEN TRUE ELSE expired
    /\ DriverReturn
    /\ UNCHANGED <<phase, saved>>

TimeDriver ==
    \/ TimeStart
    \/ TimeWhile
    \/ TimeFor
    \/ TimeBreak
    \/ TimeScore
    \/ TimeIterEnd
    \/ TimeReturn

-----------------------------------------------------------------------------
(* One search: a driver is called once on a position of one of the games.  *)

InitSearch ==
    /\ expired = FALSE
    /\ tt = FreshTable
    /\ reps = history
    /\ stack = << >>
    /\ ret = << >>
    /\ dpc = "start"
    /\ moves = << >>
    /\ snapshot = << >>
    /\ index = 0
    /\ depth = 0
    /\ best_score = 0
    /\ result = << >>
    /\ calls = 0
    /\ iterLog = << >>
    /\ lastOrder = << >>
    /\ completed = 0
    /\ aborted = FALSE
    /\ promoted = << >>

Init ==
    /\ game \in 1..Len(Games)
    /\ rootPos \in Games[game].roots
    /\ history \in Histories
    /\ \/ mode = "depth" /\ max_depth \in 0..MaxDepth
       \/ mode = "time" /\ max_depth = 0
    /\ phase = "single"
    /\ saved = << >>
    /\ InitSearch
    /\ board = {}
    /\ evals = << >>

Next ==
    \/ DepthDriver
    \/ TimeDriver
    \/ NegaMaxStep

Spec == Init /\ [][Next]_vars

-----------------------------------------------------------------------------
(* Reference values                                                        *)

RECURSIVE TrueValue(_, _, _), BestOf(_, _, _, _)

\* The depth-d negamax value of position p entered with repetition stack r:
\* nega_max without the transposition table and without pruning.
TrueValue(p, d, r) ==
    IF Outcome(p) # "None"
    THEN (IF Outcome(p) = "Draw" THEN 0 ELSE -REALLY_BIG_CHECKMATE_NUMBER - d)
    ELSE IF HashOf(p) \in Range(r) THEN 0
    ELSE IF d = 0 THEN quiescence_search(p, NEG_INFINITY, INFINITY)
    ELSE BestOf(LegalMoves(p), d - 1, Append(r, HashOf(p)), NEG_INFINITY)

\* the largest of best and -TrueValue over the moves ms
BestOf(ms, d, r, best) ==
    IF ms = << >> THEN best
    ELSE BestOf(Tail(ms), d, r, Max(best, -TrueValue(Head(ms).to, d, r)))

\* plies within which forced mates are looked for
MatePlies == 7

RECURSIVE Loses(_, _), Wins(_, _)

\* the side to move at p is checkmated within n plies whatever it plays
Loses(p, n) ==
    \/ Outcome(p) = "Decisive"
    \/ /\ Outcome(p) = "None"
       /\ n >= 2
       /\ \A i \in 1..Len(LegalMoves(p)) : Wins(LegalMoves(p)[i].to, n - 1)

\* the side to move at p has a move after which the opponent is checkmated
\* within n - 1 plies
Wins(p, n) ==
    /\ Outcome(p) = "None"
    /\ n >= 1
    /\ \E i \in 1..Len(LegalMoves(p)) : Loses(LegalMoves(p)[i].to, n - 1)

\* p is lost by force within MatePlies
ForcedLoss(p) == Loses(p, MatePlies)

\* the number of plies of the shortest forced mate against the side to move at p
MateDistance(p) == CHOOSE n \in 0..MatePlies : Loses(p, n) /\ \A k \in 0..(n - 1) : ~Loses(p, k)

-----------------------------------------------------------------------------
(* The depth driver over the whole range of max_depth: the small values,   *)
(* and the largest u16 on the game whose searches end at once.             *)

InitDepth ==
    /\ game \in 1..Len(Games)
    /\ rootPos \in Games[game].roots
    /\ history \in Histories
    /\ mode = "depth"
    /\ max_depth \in (0..MaxDepth) \cup (IF Games[game] = GameStale THEN {U16 - 1} ELSE {})
    /\ phase = "single"
    /\ saved = << >>
    /\ InitSearch
    /\ board = {}
    /\ evals = << >>

NextDepth ==
    \/ DepthDriver
    \/ NegaMaxStep

SpecDepth == InitDepth /\ [][NextDepth]_vars

-----------------------------------------------------------------------------
(* Window comparison: before each root call of the depth driver the same   *)
(* call is made with the full window (-INFINITY, +INFINITY) from the same  *)
(* table and repetition stack, its value is kept in saved.v, and the       *)
(* table is put back.                                                      *)

InitWindow ==
    /\ game \in 1..Len(Games)
    /\ rootPos \in Games[game].roots
    /\ history \in Histories
    /\ mode = "depth"
    /\ max_depth \in 0..MaxDepth
    /\ phase = "window"
    /\ saved = [tt |-> FreshTable, v |-> 0]
    /\ InitSearch
    /\ board = {}
    /\ evals = << >>

\* nega_max(&new_chess, depth, NEG_INFINITY, INFINITY, ...) on a copy of the table
WindowProbe ==
    /\ phase = "window"
    /\ dpc = "for"
    /\ index < Len(snapshot)
    /\ saved' = [saved EXCEPT !.tt = tt]
    /\ stack' = <<NewFrame(snapshot[index + 1].to, depth, NEG_INFINITY, INFINITY, reps)>>
    /\ dpc' = "shadow"
    /\ UNCHANGED <<tt, reps, ret, moves, snapshot, index, depth, best_score, result>>
    /\ UNCHANGED <<expired, phase>>
    /\ UNCHANGED ghostVars
    /\ UNCHANGED <<setupVars, evalVars>>

\* the full-window call has returned: keep its value, restore the table
WindowRestore ==
    /\ phase = "window"
    /\ dpc = "shadow"
    /\ stack = << >>
    /\ ret # << >>
    /\ saved' = [saved EXCEPT !.v = ret[1]]
    /\ tt' = saved.tt
    /\ ret' = << >>
    /\ dpc' = "probed"
    /\ UNCHANGED <<reps, stack, moves, snapshot, index, depth, best_score, result>>
    /\ UNCHANGED <<expired, phase>>
    /\ UNCHANGED ghostVars
    /\ UNCHANGED <<setupVars, evalVars>>

\* lines 66-71, the driver's own call
WindowFor ==
    /\ phase = "window"
    /\ dpc = "probed"
    /\ RootCall
    /\ UNCHANGED <<expired, phase, saved>>

NextWindow ==
    \/ DepthStart
    \/ DepthWhile
    \/ WindowProbe
    \/ WindowRestore
    \/ WindowFor
    \/ DepthScore
    \/ DepthIterEnd
    \/ DepthReturn
    \/ NegaMaxStep

SpecWindow == InitWindow /\ [][NextWindow]_vars

-----------------------------------------------------------------------------
(* Both drivers on the same position and history, one after the other, as  *)
(* in tests::time_and_depth_agree (src/src/lib.rs:312-321).                *)

InitAgree ==
    /\ game \in 1..Len(Games)
    /\ rootPos \in Games[game].roots
    /\ history \in Histories
    /\ mode = "depth"
    /\ max_depth \in 0..MaxDepth
    /\ phase = "first"
    /\ saved = << >>
    /\ InitSearch
    /\ board = {}
    /\ evals = << >>

\* line 318 has returned m1; line 319 calls find_best_move_with_time
AgreeRestart ==
    /\ phase = "first"
    /\ dpc = "done"
    /\ saved' = [result |-> result, completed |-> completed]
    /\ phase' = "second"
    /\ mode' = "time"
    /\ expired' = FALSE
    /\ tt' = FreshTable
    /\ reps' = history
    /\ stack' = << >>
    /\ ret' = << >>
    /\ dpc' = "start"
    /\ moves' = << >>
    /\ snapshot' = << >>
    /\ index' = 0
    /\ depth' = 0
    /\ best_score' = 0
    /\ result' = << >>
    /\ calls' = 0
    /\ iterLog' = << >>
    /\ lastOrder' = << >>
    /\ completed' = 0
    /\ aborted' = FALSE
    /\ promoted' = << >>
    /\ UNCHANGED <<game, rootPos, max_depth, history>>
    /\ UNCHANGED evalVars

NextAgree ==
    \/ DepthDriver
    \/ AgreeRestart
    \/ TimeDriver
    \/ NegaMaxStep

SpecAgree == InitAgree /\ [][NextAgree]_vars

-----------------------------------------------------------------------------
(* Properties                                                              *)

\* C1 (repetition balance): whenever a nega_max call returns, on whichever
\* path, previously_seen_hashes is what it was when the call was entered;
\* and when a driver has returned, it is the caller-supplied history.
C1_RepetitionBalance ==
    [][/\ Len(stack') < Len(stack) => reps' = Top.entryReps
       /\ dpc' = "done" => reps' = history]_vars

\* a search of two or more iterations on a non-empty history has returned
C1_Witness ==
    /\ dpc = "done"
    /\ completed >= 2
    /\ history # << >>
    /\ reps = history

\* C2 (alpha-beta soundness): when the full-window value v of a root call
\* lies strictly inside the window (NEG_INFINITY, -best_score) the driver
\* uses, the driver's call, made from the same table and repetition stack,
\* returns exactly v.
C2_WindowSoundness ==
    (/\ phase = "window"
     /\ dpc = "score"
     /\ stack = << >>
     /\ ret # << >>
     /\ NEG_INFINITY < saved.v
     /\ saved.v < -best_score) => ret[1] = saved.v

\* the two root moves received as scores at a node: both raised alpha, both
\* are mate scores for the side to move, both children are lost by force
BothForcedMates(a, b) ==
    /\ a.score > a.alpha
    /\ b.score > b.alpha
    /\ a.score >= REALLY_BIG_CHECKMATE_NUMBER
    /\ b.score >= REALLY_BIG_CHECKMATE_NUMBER
    /\ ForcedLoss(a.to)
    /\ ForcedLoss(b.to)

\* C3 (mate preference): a checkmated child, searched with depth - 1 plies
\* remaining, returns -(REALLY_BIG_CHECKMATE_NUMBER + depth - 1), which its
\* parent receives negated; and of two lines searched
\* from one node that both force mate, the one with fewer plies to mate
\* gets the strictly larger score at that node.
C3_MatePreference ==
    /\ \A k \in 1..Len(stack) : \A i, j \in 1..Len(stack[k].lines) :
          (/\ BothForcedMates(stack[k].lines[i], stack[k].lines[j])
           /\ MateDistance(stack[k].lines[i].to) < MateDistance(stack[k].lines[j].to))
          => stack[k].lines[i].score > stack[k].lines[j].score
    /\ \A k \in 1..Len(stack) : \A i \in 1..Len(stack[k].lines) :
          Outcome(stack[k].lines[i].to) = "Decisive"
          => stack[k].lines[i].score = REALLY_BIG_CHECKMATE_NUMBER + (stack[k].depth - 1)

\* entry e, written by a call on position p entered with repetition stack
\* r, respects its flag
ValidEntry(e, p, r) ==
    CASE e.flag = "Exact" -> e.score = TrueValue(p, e.depth, r)
      [] e.flag = "Lowerbound" -> TrueValue(p, e.depth, r) >= e.score
      [] e.flag = "Upperbound" -> TrueValue(p, e.depth, r) <= e.score
      [] OTHER -> TRUE

\* C4 (bound validity): every entry written to the transposition table
\* respects its flag against the true depth-`depth` negamax value of the
\* position it is stored for.
C4_BoundValidity ==
    [][\A i \in DOMAIN tt :
          tt'[i] # tt[i] => ValidEntry(tt'[i], Top.pos, reps')]_vars

\* a root iteration has run to its end and nothing has been searched since
IterationCompleted == dpc \in {"while", "return", "done"} /\ completed > 0 /\ ~aborted

\* the earliest entry of log with the highest score
BestIndex(log) ==
    CHOOSE i \in 1..Len(log) :
        \A j \in 1..Len(log) : /\ j < i => log[j].score < log[i].score
                               /\ j > i => log[j].score <= log[i].score

\* C5 (root ordering): after each completed iteration moves[0] is the root
\* move with the highest score found in that iteration, the earliest one on
\* ties, and best_score is that score; the driver returns moves[0] of the
\* deepest completed iteration (the first legal move when there is none).
C5_RootOrdering ==
    /\ IterationCompleted =>
          /\ Len(iterLog) = Len(moves)
          /\ moves[1] = iterLog[BestIndex(iterLog)].move
          /\ best_score = iterLog[BestIndex(iterLog)].score
          /\ lastOrder = moves
    /\ (dpc = "done" /\ ~aborted) => result = <<lastOrder[1]>>

\* two iterations are complete and the best move of the last one was not
\* at the head of the list when the iteration began
C5_Witness ==
    /\ IterationCompleted
    /\ mode = "depth"
    /\ completed >= 2
    /\ BestIndex(iterLog) > 1
    /\ dpc = "done"

\* the time driver has returned after breaking out of the root-move loop
AbortedReturn == mode = "time" /\ aborted /\ dpc = "done"

\* C6 as stated (abort keeps the last completed order): when the budget
\* expires inside an iteration, the root move order on return, and the
\* returned move, are those of the last completed iteration.
C6_AbortKeepsLastOrder ==
    AbortedReturn => (moves = lastOrder /\ result = <<lastOrder[1]>>)

Reverse(s) == [i \in 1..Len(s) |-> s[Len(s) + 1 - i]]

\* C6 amended (abort keeps the promotions made so far): on return after an
\* expiry inside an iteration, the order is the moves promoted during the
\* aborted iteration, latest first, followed by the remaining moves in the
\* order of the last completed iteration; it is that order unchanged exactly
\* when no move other than its head was promoted.
C6_AbortKeepsPromotions ==
    AbortedReturn =>
       /\ moves = Reverse(promoted) \o
                  SelectSeq(lastOrder, LAMBDA m : m \notin Range(promoted))
       /\ result = <<moves[1]>>
       /\ (moves = lastOrder) <=> (Range(promoted) \subseteq {lastOrder[1]})

\* an aborted iteration of a completed search changed the head of the list
C6_Witness ==
    /\ AbortedReturn
    /\ completed >= 1
    /\ result # <<lastOrder[1]>>

\* C7 (single-move short-circuit): on a root with one legal move no
\* nega_max call is ever made, the repetition stack is never touched, and
\* the driver returns that move.
C7_SingleMove ==
    Len(LegalMoves(rootPos)) = 1 =>
       /\ calls = 0
       /\ stack = << >>
       /\ reps = history
       /\ dpc \in {"start", "done"}
       /\ dpc = "done" => result = <<LegalMoves(rootPos)[1]>>

\* the time driver has returned the only move, with a non-empty history
C7_Witness ==
    /\ Len(LegalMoves(rootPos)) = 1
    /\ dpc = "done"
    /\ mode = "time"
    /\ history # << >>
    /\ result = <<LegalMoves(rootPos)[1]>>

\* C8 (depth schedule): the depth driver searches at depths 2, 4, 6, ... in
\* increasing order and only below max_depth, makes no nega_max call and
\* returns the first legal move when max_depth <= 2, and does not end in
\* a panic.
C8_DepthSchedule ==
    mode = "depth" =>
       /\ dpc # "panic"
       /\ dpc \in {"for", "score"} => (depth = 2 * (completed + 1) /\ depth < max_depth)
       /\ calls > 0 => max_depth > 2
       /\ (dpc = "done" /\ max_depth <= 2) => result = <<LegalMoves(rootPos)[1]>>

\* C9 (the drivers agree): when the time driver completes, with no expiry
\* inside an iteration, exactly the iterations the depth driver completed
\* on the same position and history, it returns the same move.
C9_DriversAgree ==
    (/\ phase = "second"
     /\ dpc = "done"
     /\ ~aborted
     /\ completed = saved.completed) => result = saved.result

\* both drivers completed the same three iterations and returned a move
\* that was not the first legal move
C9_Witness ==
    /\ phase = "second"
    /\ dpc = "done"
    /\ ~aborted
    /\ completed = saved.completed
    /\ completed >= 3
    /\ result = saved.result
    /\ result # <<LegalMoves(rootPos)[1]>>

-----------------------------------------------------------------------------
(* evaluate_board (src/src/evaluation.rs:6-51).  A board is a set of       *)
(* pieces [color, role, square], squares numbered 0 (a1) to 63 (h8), at    *)
(* most one piece on a square, one king of each colour.                    *)

\* material weights of the piece-square tables
PawnWeight == 100

KnightWeight == 320

BishopWeight == 330

RookWeight == 500

QueenWeight == 900

KingWeight == 20000

Material(r) ==
    CASE r = "Pawn" -> PawnWeight
      [] r = "Knight" -> KnightWeight
      [] r = "Bishop" -> BishopWeight
      [] r = "Rook" -> RookWeight
      [] r = "Queen" -> QueenWeight
      [] OTHER -> KingWeight

\* positional bias of role r on square s, from White's side: pawns and
\* kings by rank, the other pieces by distance from the board's edge
Bias(r, s) ==
    LET rank == s \div 8
        file == s % 8
        edge == Min(Min(rank, 7 - rank), Min(file, 7 - file))
    IN  CASE r = "Pawn" -> 5 * (rank - 1)
          [] r = "King" -> -(10 * rank) + edge
          [] r = "Rook" -> (IF rank = 6 THEN 10 ELSE 0) + edge
          [] OTHER -> 10 * edge - 15 + rank

\* piece_square_tables::PAWN[s], ::BISHOP[s], ...
Table(r, s) == Material(r) + Bias(r, s)

\* square as usize ^ 56
Xor56(s) == 8 * (7 - (s \div 8)) + (s % 8)

\* an integer division that rounds towards minus infinity
FloorDiv(a, b) == a \div b

\* i32 division: rounds towards zero
TruncDiv(a, b) ==
    IF (a >= 0) = (b > 0) THEN Abs(a) \div Abs(b) ELSE -(Abs(a) \div Abs(b))

RECURSIVE SumTable(_, _)

\* the sum of the table values of the pieces in ps, flipped for Black
SumTable(ps, flip) ==
    IF ps = {} THEN 0
    ELSE LET p == CHOOSE q \in ps : TRUE
         IN  Table(p.role, IF flip THEN Xor56(p.square) ELSE p.square)
             + SumTable(ps \ {p}, flip)

\* lines 7-25
white_material_score(b) == SumTable({p \in b : p.color = "White"}, FALSE)

\* lines 8, 27-42
black_material_score(b) == SumTable({p \in b : p.color = "Black"}, TRUE)

\* line 44
material_difference(b) == white_material_score(b) - black_material_score(b)

\* line 45
total_material(b) == white_material_score(b) + black_material_score(b)

\* a trade bonus that grows with the total
GrowingBonus(b) == TruncDiv(material_difference(b) * (total_material(b) \div 1000), 1000)

\* line 48
trade_bonus(b) == TruncDiv(100 * material_difference(b), total_material(b))

evaluate_board(b) == material_difference(b) + trade_bonus(b)

\* the colour-swapped vertical mirror of a board
Mirror(b) ==
    {[color |-> IF p.color = "White" THEN "Black" ELSE "White",
      role |-> p.role, square |-> Xor56(p.square)] : p \in b}

Piece(c, r, s) == [color |-> c, role |-> r, square |-> s]

BackRank == <<"Rook", "Knight", "Bishop", "Queen", "King", "Bishop", "Knight", "Rook">>

StartPosition ==
    {Piece("White", BackRank[f + 1], f) : f \in 0..7}
    \cup {Piece("White", "Pawn", 8 + f) : f \in 0..7}
    \cup {Piece("Black", "Pawn", 48 + f) : f \in 0..7}
    \cup {Piece("Black", BackRank[f + 1], 56 + f) : f \in 0..7}

\* most pieces on a board besides the two kings (the starting position apart)
MaxExtra == 2

ExtraSquares == {8, 27, 35, 55}

ExtraPieces ==
    {Piece(c, r, s) : c \in {"White", "Black"},
                      r \in {"Pawn", "Knight", "Bishop", "Rook", "Queen"},
                      s \in ExtraSquares}

RECURSIVE Extras(_)

\* the sets of at most n extra pieces, no two on one square
Extras(n) ==
    IF n = 0 THEN {{}}
    ELSE Extras(n - 1) \cup
         UNION {{X \cup {p} : p \in {q \in ExtraPieces : \A x \in X : x.square # q.square}} :
                   X \in Extras(n - 1)}

Boards ==
    {StartPosition} \cup
    {{Piece("White", "King", wk), Piece("Black", "King", bk)} \cup X :
        wk \in {1, 4}, bk \in {60, 62}, X \in Extras(MaxExtra)}

InitEval ==
    /\ game = 1
    /\ rootPos = 1
    /\ history = << >>
    /\ mode = "depth"
    /\ max_depth = 0
    /\ phase = "eval"
    /\ saved = << >>
    /\ InitSearch
    /\ board \in Boards
    /\ evals = << >>

searchVars ==
    <<expired, tt, reps, stack, ret, dpc, moves, snapshot, index, depth, best_score,
      result, phase, saved>>

\* evaluate_board(&board)
EvaluateBoard ==
    /\ phase = "eval"
    /\ evals = << >>
    /\ evals' = <<evaluate_board(board)>>
    /\ UNCHANGED <<board, searchVars, setupVars, ghostVars>>

\* evaluate_board on the colour-swapped vertical mirror of the board
EvaluateMirror ==
    /\ phase = "eval"
    /\ Len(evals) = 1
    /\ evals' = Append(evals, evaluate_board(Mirror(board)))
    /\ UNCHANGED <<board, searchVars, setupVars, ghostVars>>

NextEval ==
    \/ EvaluateBoard
    \/ EvaluateMirror

SpecEval == InitEval /\ [][NextEval]_vars

\* C10 (evaluator antisymmetry): evaluate_board of a board is the negation
\* of evaluate_board of its colour-swapped vertical mirror, and the
\* starting position evaluates to 0.
C10_Antisymmetry ==
    /\ Len(evals) = 2 => evals[1] = -evals[2]
    /\ (board = StartPosition /\ Len(evals) >= 1) => evals[1] = 0

\* a board on which Black is ahead has been evaluated together with its mirror
C10_Witness ==
    /\ Len(evals) = 2
    /\ Cardinality(board) > 2
    /\ evals[1] < 0
    /\ evals[2] = -evals[1]


-----------------------------------------------------------------------------
(* Trades (src/src/evaluation.rs:44-50, tests::trades at 99-105): two      *)
(* boards are evaluated, the second being the first with one more piece of *)
(* a role on each side.                                                    *)

\* "7k/7p/8/8/8/Q7/P7/K7"
TradesBoard1 ==
    {Piece("White", "King", 0), Piece("White", "Pawn", 8), Piece("White", "Queen", 16),
     Piece("Black", "Pawn", 55), Piece("Black", "King", 63)}

\* "6qk/7p/8/8/8/Q7/P7/KQ6"
TradesBoard2 ==
    TradesBoard1 \cup {Piece("White", "Queen", 1), Piece("Black", "Queen", 62)}

\* the boards a trade is undone on: the test's board and the boards with the
\* two kings and at most one more piece
TradeBoards == {TradesBoard1} \cup {b \in Boards : Cardinality(b) <= 3}

Occupied(b) == {p.square : p \in b}

\* b with a white piece and a black piece of one role added on free squares
Untraded(b) ==
    {b \cup {Piece("White", r, s), Piece("Black", r, t)} :
        r \in {"Pawn", "Knight", "Bishop", "Rook", "Queen"},
        s \in {1, 10} \ Occupied(b), t \in {62, 50, 46} \ Occupied(b)}

InitTrade ==
    /\ game = 1
    /\ rootPos = 1
    /\ history = << >>
    /\ mode = "depth"
    /\ max_depth = 0
    /\ phase = "trade"
    /\ InitSearch
    /\ board \in TradeBoards
    /\ saved \in Untraded(board)
    /\ evals = << >>

\* evaluate_board(&board1)
EvaluateTraded ==
    /\ phase = "trade"
    /\ evals = << >>
    /\ evals' = <<evaluate_board(board)>>
    /\ UNCHANGED <<board, searchVars, setupVars, ghostVars>>

\* evaluate_board(&board2)
EvaluateUntraded ==
    /\ phase = "trade"
    /\ Len(evals) = 1
    /\ evals' = Append(evals, evaluate_board(saved))
    /\ UNCHANGED <<board, searchVars, setupVars, ghostVars>>

NextTrade ==
    \/ EvaluateTraded
    \/ EvaluateUntraded

SpecTrade == InitTrade /\ [][NextTrade]_vars

\* both boards are evaluated; they have the same positive material
\* difference and the first has the smaller total
SameLeadSmallerTotal ==
    /\ phase = "trade"
    /\ Len(evals) = 2
    /\ material_difference(board) = material_difference(saved)
    /\ material_difference(board) > 0
    /\ total_material(board) < total_material(saved)

-----------------------------------------------------------------------------
(* Move-ordering keys (src/src/evaluation.rs:55-92, tests::ordering at     *)
(* 107-121): two moves are keyed with move_score and, when they capture,   *)
(* with capture_score, then sorted as nega_max sorts its move list.        *)

Roles == {"Pawn", "Knight", "Bishop", "Rook", "Queen", "King"}

\* the roles m.capture() can hold: a king is never captured
Victims == {"Pawn", "Knight", "Bishop", "Rook", "Queen"}

\* Move::Normal values as read by move_score: role, capture, promotion
\* (only a pawn promotes)
SampleMoves ==
    {[to |-> 1, role |-> r, capture |-> c, promotion |-> FALSE] :
        r \in Roles, c \in Victims \cup {"None"}}
    \cup {[to |-> 1, role |-> "Pawn", capture |-> c, promotion |-> TRUE] :
        c \in Victims \cup {"None"}}

InitOrder ==
    /\ game = 1
    /\ rootPos = 1
    /\ history = << >>
    /\ mode = "depth"
    /\ max_depth = 0
    /\ phase = "order"
    /\ saved = << >>
    /\ expired = FALSE
    /\ tt = FreshTable
    /\ reps = history
    /\ stack = << >>
    /\ ret = << >>
    /\ dpc = "start"
    /\ \E m1, m2 \in SampleMoves : moves = <<m1, m2>>
    /\ snapshot = << >>
    /\ index = 0
    /\ depth = 0
    /\ best_score = 0
    /\ result = << >>
    /\ calls = 0
    /\ iterLog = << >>
    /\ lastOrder = << >>
    /\ completed = 0
    /\ aborted = FALSE
    /\ promoted = << >>
    /\ board = {}
    /\ evals = << >>

orderVars ==
    <<expired, tt, reps, stack, ret, dpc, index, depth, best_score, result, board, evals>>

\* move_score(&m) for each move, capture_score(&m) for each capture
KeyMoves ==
    /\ phase = "order"
    /\ saved' = [move_score |-> [i \in 1..Len(moves) |-> move_score(moves[i])],
                 capture_score |-> [i \in {j \in 1..Len(moves) : moves[j].capture # "None"}
                                      |-> capture_score(moves[i])]]
    /\ snapshot' = moves
    /\ phase' = "keyed"
    /\ UNCHANGED <<moves, orderVars, setupVars, ghostVars>>

\* moves.sort_unstable_by_key(|m| move_score(m))
SortMoves ==
    /\ phase = "keyed"
    /\ moves' = SortByKey(moves, saved.move_score)
    /\ phase' = "sorted"
    /\ UNCHANGED <<snapshot, saved, orderVars, setupVars, ghostVars>>

NextOrder ==
    \/ KeyMoves
    \/ SortMoves

SpecOrder == InitOrder /\ [][NextOrder]_vars

\* value classes of the roles: Pawn < Knight = Bishop < Rook < Queen, a
\* king attacker counting with the queen
RoleClass(r) ==
    CASE r = "Pawn" -> 1
      [] r \in {"Knight", "Bishop"} -> 2
      [] r = "Rook" -> 3
      [] OTHER -> 4

\* snapshot[i] is a capture that does not promote
PlainCapture(i) == snapshot[i].capture # "None" /\ ~snapshot[i].promotion

\* C12 (move-ordering keys): for a non-promotion capture move_score equals
\* capture_score; a capture of a more valuable victim class keys strictly
\* below any capture of a less valuable class, whatever the attackers; with
\* victims of one class the attacker of the lower class keys strictly
\* lower; every non-promotion capture keys below 0, a quiet non-promotion
\* keys 0 and a quiet promotion keys 60; and the sort puts the lower key
\* first.
C12_OrderingKeys ==
    phase \in {"keyed", "sorted"} =>
       /\ \A i \in 1..2 :
             /\ PlainCapture(i) => /\ saved.move_score[i] = saved.capture_score[i]
                                   /\ saved.move_score[i] < 0
             /\ (snapshot[i].capture = "None" /\ ~snapshot[i].promotion)
                   => saved.move_score[i] = 0
             /\ (snapshot[i].capture = "None" /\ snapshot[i].promotion)
                   => saved.move_score[i] = 60
       /\ \A i, j \in 1..2 :
             (PlainCapture(i) /\ PlainCapture(j)) =>
                /\ RoleClass(snapshot[i].capture) > RoleClass(snapshot[j].capture)
                      => saved.move_score[i] < saved.move_score[j]
                /\ (/\ RoleClass(snapshot[i].capture) = RoleClass(snapshot[j].capture)
                    /\ RoleClass(snapshot[i].role) < RoleClass(snapshot[j].role))
                      => saved.move_score[i] < saved.move_score[j]
       /\ phase = "sorted" =>
             (saved.move_score[2] < saved.move_score[1] => moves = <<snapshot[2], snapshot[1]>>)

\* Queen takes Queen and Pawn takes Rook have been keyed and sorted: the
\* capture of the queen, second in the list, is now first
C12_Witness ==
    /\ phase = "sorted"
    /\ snapshot = <<[to |-> 1, role |-> "Pawn", capture |-> "Rook", promotion |-> FALSE],
                    [to |-> 1, role |-> "Queen", capture |-> "Queen", promotion |-> FALSE]>>
    /\ saved.move_score = <<-49, -81>>
    /\ moves[1] = snapshot[2]


-----------------------------------------------------------------------------
(* Properties of the transposition table, the repetition stack and the     *)
(* move loops                                                              *)

\* the running call is about to store: what lines 230-243 write
WrittenEntry(f) ==
    [hash |-> HashOf(f.pos), score |-> f.value, depth |-> f.depth,
     best_move_index |-> f.best_move_index,
     flag |-> IF f.value <= f.original_alpha THEN "Upperbound"
              ELSE IF f.value >= f.beta THEN "Lowerbound" ELSE "Exact"]

\* C13 (depth-preferred replacement): a slot changes only at the end of a
\* nega_max call, only when its stored depth is strictly less than the
\* depth of the call, and then hash, score, depth, best_move_index and flag
\* are all those of the call; no slot's depth ever decreases, and a slot
\* whose depth is not less than the call's is left as it was.
C13_DepthPreferred ==
    [][\A i \in DOMAIN tt :
          /\ tt'[i].depth >= tt[i].depth
          /\ tt'[i] # tt[i] =>
                /\ stack # << >>
                /\ i = TableIndex(HashOf(Top.pos))
                /\ tt[i].depth < Top.depth
                /\ tt'[i] = WrittenEntry(Top)
                /\ tt'[i].flag # "None"
          /\ (stack # << >> /\ Len(stack') < Len(stack) /\ tt[i].depth >= Top.depth)
                => tt'[i] = tt[i]]_vars

\* a call is about to end on a slot that holds an entry of the same depth
\* for another position: the slot keeps that entry
C13_Witness ==
    /\ stack # << >>
    /\ ret = << >>
    /\ LeavesLoop(Top)
    /\ Slot(Top).flag # "None"
    /\ Slot(Top).hash # HashOf(Top.pos)
    /\ Slot(Top).depth = Top.depth
    /\ StoredEntry(Top) = Slot(Top)


\* a call has just been entered
AtEntry == stack # << >> /\ ret = << >> /\ Top.pc = "entry"

\* C14 (repetition draw short-circuit): a call entered on a position with
\* an outcome returns the outcome's score; a call entered on a position
\* without outcome whose hash is in previously_seen_hashes returns 0 in its
\* next step, whatever its depth, its window and the table hold, leaving
\* the table and the repetition stack as they are and calling nothing.
C14_RepetitionDraw ==
    [][/\ (AtEntry /\ Outcome(Top.pos) = "None" /\ HashOf(Top.pos) \in Range(reps)) =>
             /\ ret' = <<0>>
             /\ stack' = Pop(stack)
             /\ tt' = tt
             /\ reps' = reps
             /\ calls' = calls
       /\ (AtEntry /\ Outcome(Top.pos) # "None") =>
             /\ ret' = <<IF Outcome(Top.pos) = "Draw" THEN 0
                         ELSE -REALLY_BIG_CHECKMATE_NUMBER - Top.depth>>
             /\ tt' = tt
             /\ reps' = reps]_vars

\* the child searched last repeats a position of the path, the table holds
\* an Exact entry of sufficient depth and non-zero score for it, and the
\* child returned 0
C14_Witness ==
    /\ stack # << >>
    /\ ret = << >>
    /\ Top.lines # << >>
    /\ Top.depth >= 2
    /\ LET line == Top.lines[Len(Top.lines)]
           slot == tt[TableIndex(HashOf(line.to))]
       IN  /\ Outcome(line.to) = "None"
           /\ HashOf(line.to) \in Range(reps)
           /\ HashOf(line.to) \notin Range(history)
           /\ line.score = 0
           /\ slot.hash = HashOf(line.to)
           /\ slot.depth >= Top.depth - 1
           /\ slot.flag = "Exact"
           /\ slot.score # 0


\* the hashes of the positions of the calls below the k-th one, outermost first
AncestorHashes(k) == [i \in 1..(k - 1) |-> HashOf(stack[i].pos)]

\* C15 as stated (repetition-stack contents): on entry to a nega_max call
\* previously_seen_hashes is the caller-supplied history followed by the
\* hashes of the ancestors on the search path, from the root position given
\* to the driver down to the node's parent.
C15_StackFromRoot ==
    \A k \in 1..Len(stack) :
        stack[k].entryReps = history \o <<HashOf(rootPos)>> \o AncestorHashes(k)

\* C15 amended (repetition-stack contents): on entry to a nega_max call
\* previously_seen_hashes is the caller-supplied history followed by the
\* hashes of the ancestors on the search path from the position after the
\* root move down to the node's parent; the driver does not push the hash
\* of the root position, which is there only if the history holds it.
C15_StackFromRootChild ==
    /\ \A k \in 1..Len(stack) : stack[k].entryReps = history \o AncestorHashes(k)
    /\ AtEntry => reps = Top.entryReps
    /\ stack = << >> => reps = history

\* a call three plies below the root move has been entered, on a history
\* that is not empty and does not hold the root position
C15_Witness ==
    /\ AtEntry
    /\ Len(stack) >= 4
    /\ history # << >>
    /\ HashOf(rootPos) \notin Range(history)
    /\ reps = history \o AncestorHashes(Len(stack))


\* the slot of the call just entered answers for its position at its depth
SlotAnswers == tt[TableIndex(HashOf(Top.pos))].hash = HashOf(Top.pos)
               /\ tt[TableIndex(HashOf(Top.pos))].depth >= Top.depth

\* the call just entered goes on to the table probe
Probes == AtEntry /\ Outcome(Top.pos) = "None" /\ HashOf(Top.pos) \notin Range(reps)
          /\ Top.depth # 0

\* C16 (transposition-table probe): a call that reaches the probe returns
\* early only when the slot holds its hash at a depth not less than its own,
\* and then the stored score: at once for Exact, for Lowerbound when
\* max(alpha, score) >= beta, for Upperbound when alpha >= min(beta, score);
\* otherwise it goes on with alpha raised to max(alpha, score) for such a
\* Lowerbound entry, beta lowered to min(beta, score) for such an Upperbound
\* entry, and its window unchanged for any other slot content (another
\* hash, a smaller depth, flag None).
C16_ProbeRule ==
    [][Probes =>
          LET e == tt[TableIndex(HashOf(Top.pos))]
              k == Len(stack)
              a == IF SlotAnswers /\ e.flag = "Lowerbound"
                   THEN (IF e.score > Top.alpha THEN e.score ELSE Top.alpha) ELSE Top.alpha
              b == IF SlotAnswers /\ e.flag = "Upperbound"
                   THEN (IF e.score < Top.beta THEN e.score ELSE Top.beta) ELSE Top.beta
          IN  /\ tt' = tt
              /\ IF SlotAnswers /\ (e.flag = "Exact" \/ a >= b)
                 THEN ret' = <<e.score>> /\ stack' = Pop(stack) /\ reps' = reps
                 ELSE /\ ret' = << >>
                      /\ Len(stack') >= k
                      /\ stack'[k].alpha = a
                      /\ stack'[k].beta = b
                      /\ stack'[k].original_alpha = Top.alpha
                      /\ (~SlotAnswers \/ e.flag = "None") =>
                            (stack'[k].alpha = Top.alpha /\ stack'[k].beta = Top.beta)]_vars

\* a call has gone on from the probe with a slot that holds its hash at a
\* smaller depth: its window is the one it was called with, and the slot's
\* best_move_index chose the move searched first
C16_Witness ==
    /\ Len(stack) >= 2
    /\ stack[Len(stack)].pc = "entry"
    /\ LET f == stack[Len(stack) - 1]
           e == tt[TableIndex(HashOf(f.pos))]
       IN  /\ f.pc = "pv_ret"
           /\ e.hash = HashOf(f.pos)
           /\ e.depth < f.depth
           /\ e.flag # "None"
           /\ e.best_move_index > 0
           /\ f.alpha = f.original_alpha
           /\ Top.pos = f.moves[e.best_move_index + 1].to


\* C17 (PV-move handling): within one nega_max call every legal move is
\* searched at most once: no two of the children searched so far belong to
\* the same index of the sorted move list.
C17_SearchedOnce ==
    \A k \in 1..Len(stack) : \A i, j \in 1..Len(stack[k].lines) :
        i # j => stack[k].lines[i].index # stack[k].lines[j].index


\* s without its elements equal to m
Without(s, m) == SelectSeq(s, LAMBDA x : x # m)

\* a root move has been scored by the step
ScoresRootMove == dpc = "score" /\ dpc' = "for"

\* C18 (root promotion by swap chain): when the score of the root move just
\* searched exceeds best_score, that move, snapshot[index], is put at index
\* 0 and the other root moves keep their relative order; otherwise the list
\* is left alone; the list is always a permutation of the legal moves of
\* the root position, and the returned move is one of them.
C18_PromotionRotates ==
    [][/\ ScoresRootMove =>
             IF -ret[1] > best_score
             THEN /\ moves'[1] = snapshot[index + 1]
                  /\ Without(moves', snapshot[index + 1]) = Without(moves, snapshot[index + 1])
                  /\ Len(moves') = Len(moves)
             ELSE moves' = moves
       /\ dpc' # "start" => /\ Len(moves') = Len(LegalMoves(rootPos))
                            /\ Range(moves') = Range(LegalMoves(rootPos))
       /\ result' # << >> => result'[1] \in Range(LegalMoves(rootPos))]_vars

\* the move at index 2 or later of the snapshot has been promoted to the
\* head of a list that an earlier promotion of the iteration had reordered
C18_Witness ==
    /\ dpc = "for"
    /\ index >= 3
    /\ Len(promoted) >= 2
    /\ promoted[Len(promoted)] = snapshot[index]
    /\ moves[1] = snapshot[index]
    /\ moves[2] # snapshot[1]


-----------------------------------------------------------------------------
(* quiescence_search (src/src/lib.rs:249-278) called on a position with a  *)
(* window: rootPos is the position, saved the window, ret the value        *)
(* returned.                                                               *)

\* bounds of the windows quiescence_search is called with
WindowValues == {NEG_INFINITY, -3, -1, 0, 1, 2, 4, INFINITY}

InitQuiesce ==
    /\ game \in 1..Len(Games)
    /\ rootPos \in 1..Len(Games[game].legal)
    /\ history \in Histories
    /\ mode = "depth"
    /\ max_depth = 0
    /\ phase = "quiesce"
    /\ \E a, b \in WindowValues : a <= b /\ saved = [alpha |-> a, beta |-> b]
    /\ InitSearch
    /\ board = {}
    /\ evals = << >>

\* quiescence_search(&chess, alpha, beta)
QuiescenceCall ==
    /\ phase = "quiesce"
    /\ ret' = <<quiescence_search(rootPos, saved.alpha, saved.beta)>>
    /\ phase' = "quiesced"
    /\ UNCHANGED <<expired, tt, reps, stack, dpc, moves, snapshot, index, depth,
                   best_score, result, saved>>
    /\ UNCHANGED <<setupVars, ghostVars, evalVars>>

NextQuiesce == QuiescenceCall

SpecQuiesce == InitQuiesce /\ [][NextQuiesce]_vars

\* evaluate_board from the side to move at rootPos
StandPat == BoardEval(rootPos) * (IF IsWhite(rootPos) THEN 1 ELSE -1)

\* C19 (quiescence is fail-hard): called with alpha <= beta,
\* quiescence_search returns a value between alpha and beta: beta when the
\* stand-pat value reaches beta, otherwise a value not below the alpha
\* raised to the stand-pat value; the transposition table and the
\* repetition stack are what they were.
C19_QuiescenceFailHard ==
    phase = "quiesced" =>
       /\ saved.alpha <= ret[1]
       /\ ret[1] <= saved.beta
       /\ StandPat >= saved.beta => ret[1] = saved.beta
       /\ StandPat < saved.beta => ret[1] >= Max(saved.alpha, StandPat)
       /\ tt = FreshTable
       /\ reps = history

\* a capture has raised the value above alpha and the stand-pat value,
\* below beta
C19_Witness ==
    /\ phase = "quiesced"
    /\ CaptureMoves(rootPos) # << >>
    /\ saved.alpha < saved.beta
    /\ ret[1] > Max(saved.alpha, StandPat)
    /\ ret[1] < saved.beta


-----------------------------------------------------------------------------
(* Ranges of the scores                                                    *)

\* x and -x are both i32 values
Negatable(x) == -2147483647 <= x /\ x <= 2147483647

\* C20 (no i32 overflow in the search): every alpha, beta, value,
\* best_score and returned score the drivers and nega_max negate lies
\* between -i32::MAX and i32::MAX, and the mate score
\* -REALLY_BIG_CHECKMATE_NUMBER - depth is an i32 for the depth of every
\* call and for the largest u16.
C20_NoOverflow ==
    /\ Negatable(best_score)
    /\ \A i \in 1..Len(ret) : Negatable(ret[i])
    /\ \A k \in 1..Len(stack) :
          /\ Negatable(stack[k].alpha)
          /\ Negatable(stack[k].beta)
          /\ Negatable(stack[k].value)
          /\ Negatable(stack[k].original_alpha)
          /\ stack[k].depth < U16
          /\ Negatable(-REALLY_BIG_CHECKMATE_NUMBER - stack[k].depth)
    /\ Negatable(-REALLY_BIG_CHECKMATE_NUMBER - (U16 - 1))
    /\ Negatable(NEG_INFINITY)
    /\ Negatable(INFINITY)

\* a checkmated node has returned its mate score to a call that was
\* entered with the window (NEG_INFINITY, INFINITY) negated
C20_Witness ==
    /\ stack # << >>
    /\ ret # << >>
    /\ ret[1] <= -REALLY_BIG_CHECKMATE_NUMBER
    /\ \E k \in 1..Len(stack) : stack[k].alpha = NEG_INFINITY /\ stack[k].beta = INFINITY
    /\ \E k \in 1..Len(stack) : stack[k].value = NEG_INFINITY


-----------------------------------------------------------------------------
(* quiescence_search (src/src/lib.rs:249-278) call by call: stack holds    *)
(* the active calls, innermost last, each with its position, its window,   *)
(* the captures its for loop has not finished (the head is the one being   *)
(* searched while a recursive call is active) and its position in the body.*)

InitSteps ==
    /\ game \in 1..Len(Games)
    /\ rootPos \in 1..Len(Games[game].legal)
    /\ history = << >>
    /\ mode = "depth"
    /\ max_depth = 0
    /\ phase = "steps"
    /\ \E a, b \in WindowValues : a <= b /\ saved = [alpha |-> a, beta |-> b]
    /\ InitSearch
    /\ board = {}
    /\ evals = << >>

QFrame(p, a, b) == [pos |-> p, alpha |-> a, beta |-> b, caps |-> << >>, pc |-> "entry"]

\* a call returns v: the outermost call ends the run
QReturn(v) ==
    /\ stack' = Pop(stack)
    /\ ret' = <<v>>
    /\ phase' = IF Len(stack) = 1 THEN "quiesced" ELSE phase

\* the call of quiescence_search(&chess, alpha, beta) on rootPos
QStart ==
    /\ phase = "steps"
    /\ stack = << >>
    /\ stack' = <<QFrame(rootPos, saved.alpha, saved.beta)>>
    /\ phase' = "searching"
    /\ UNCHANGED ret

\* lib.rs:250-261: stand pat, its cutoff, capture_moves sorted
QStandPat ==
    /\ phase = "searching"
    /\ Top.pc = "entry"
    /\ LET stand_pat == BoardEval(Top.pos) * (IF IsWhite(Top.pos) THEN 1 ELSE -1)
       IN  IF stand_pat >= Top.beta
           THEN QReturn(Top.beta)
           ELSE /\ stack' = [stack EXCEPT ![Len(stack)] =
                                [@ EXCEPT !.alpha = IF @ < stand_pat THEN stand_pat ELSE @,
                                          !.caps = SortedCaptures(Top.pos),
                                          !.pc = "loop"]]
                /\ UNCHANGED <<ret, phase>>

\* lib.rs:263-266: the next capture is played and searched
QRecurse ==
    /\ phase = "searching"
    /\ Top.pc = "loop"
    /\ Top.caps # << >>
    /\ stack' = Append([stack EXCEPT ![Len(stack)].pc = "wait"],
                       QFrame(Head(Top.caps).to, -Top.beta, -Top.alpha))
    /\ ret' = << >>
    /\ UNCHANGED phase

\* lib.rs:266-274: the recursive call has returned
QResume ==
    /\ phase = "searching"
    /\ Top.pc = "wait"
    /\ ret # << >>
    /\ LET score == -ret[1]
       IN  IF score >= Top.beta
           THEN QReturn(Top.beta)
           ELSE /\ stack' = [stack EXCEPT ![Len(stack)] =
                                [@ EXCEPT !.alpha = IF score > @ THEN score ELSE @,
                                          !.caps = Tail(@),
                                          !.pc = "loop"]]
                /\ ret' = << >>
                /\ UNCHANGED phase

\* lib.rs:277: the loop is over
QLoopEnd ==
    /\ phase = "searching"
    /\ Top.pc = "loop"
    /\ Top.caps = << >>
    /\ QReturn(Top.alpha)

QStep ==
    /\ \/ QStart
       \/ QStandPat
       \/ QRecurse
       \/ QResume
       \/ QLoopEnd
    /\ UNCHANGED <<expired, tt, reps, dpc, moves, snapshot, index, depth,
                   best_score, result, saved>>
    /\ UNCHANGED <<setupVars, ghostVars, evalVars>>

NextSteps == QStep

\* a call that can take a step takes it
SpecSteps == InitSteps /\ [][NextSteps]_vars /\ WF_vars(NextSteps)

\* pieces on the board besides the two kings
NonKingPieces(p) == PieceCount(p) - 2

\* the k-th active call follows k - 1 captures from rootPos, each of which
\* removed one piece, and the calls below the outermost are no more than
\* the pieces besides the kings at rootPos
DepthBounded ==
    /\ \A k \in 1..Len(stack) : PieceCount(stack[k].pos) = PieceCount(rootPos) - (k - 1)
    /\ Len(stack) - 1 <= NonKingPieces(rootPos)

\* C21 (quiescence terminates): from every position quiescence_search
\* eventually returns; every recursive call follows a capture that removes
\* one piece, so the recursion depth never exceeds the number of non-king
\* pieces on the board it was called with.
C21_QuiescenceTerminates ==
    /\ [](phase \in {"searching", "quiesced"} => DepthBounded)
    /\ <>(phase = "quiesced" /\ stack = << >> /\ ret # << >>)

\* the recursion is as deep as the non-king pieces allow: three captures
\* down to the bare kings
C21_Witness ==
    /\ phase = "searching"
    /\ Len(stack) - 1 = NonKingPieces(rootPos)
    /\ Len(stack) >= 4
    /\ PieceCount(Top.pos) = 2


-----------------------------------------------------------------------------
(* The UCI front-end's position command (src/src/main.rs:48-50, 101-131).  *)
(* rootPos is game_state.chess, reps game_state.previously_seen_hashes,    *)
(* saved the tokens of the last position command.  A fen token is the      *)
(* number of the position it describes, the token startpos is written 0    *)
(* and stands for position 1, and a                                        *)
(* move token is the 1-based index of the move among the legal moves of    *)
(* the position it is played in (UciMove::to_move).                        *)

\* longest move list of a position command
MaxMoves == 3

\* the token "startpos"
StartposToken == 0

\* Chess::new()
StartPos == 1

\* legal_move.is_zeroing(): a capture or a pawn move
IsZeroing(m) == m.capture # "None" \/ m.role = "Pawn"

\* a history that is never cleared
KeepAll(m, hashes_seen) == hashes_seen

\* main.rs:120-122
ClearIfZeroing(m, hashes_seen) == IF IsZeroing(m) THEN << >> ELSE hashes_seen

RECURSIVE PlayMoves(_, _, _)

\* main.rs:117-126: the for loop over the move tokens ms
PlayMoves(chess, hashes_seen, ms) ==
    IF ms = << >>
    THEN [chess |-> chess, previously_seen_hashes |-> hashes_seen]
    ELSE LET legal_move == LegalMoves(chess)[Head(ms)]
             played == legal_move.to
         IN  PlayMoves(played,
                       Append(ClearIfZeroing(legal_move, hashes_seen), HashOf(played)),
                       Tail(ms))

\* update_position: the first token is the fen, the second one ("moves")
\* is dropped, the others are the moves
update_position(position) ==
    LET fen == position[1]
        chess == IF fen = StartposToken THEN StartPos ELSE fen
        hashes_seen == <<HashOf(chess)>>
    IN  IF Len(position) >= 2
        THEN PlayMoves(chess, hashes_seen, SubSeq(position, 3, Len(position)))
        ELSE [chess |-> chess, previously_seen_hashes |-> hashes_seen]

RECURSIVE MoveLists(_, _)

\* the lists of at most n move tokens that are legal from position p
MoveLists(p, n) ==
    {<< >>} \cup
    (IF n = 0 THEN {}
     ELSE UNION {{<<i>> \o ms : ms \in MoveLists(LegalMoves(p)[i].to, n - 1)} :
                 i \in 1..Len(LegalMoves(p))})

\* the token lists after "position" that every expect() accepts
PositionLines ==
    LET Fens == {StartposToken} \cup (1..Len(Games[game].legal))
        At(f) == IF f = StartposToken THEN StartPos ELSE f
    IN  {<<f>> : f \in Fens} \cup
        UNION {{<<f, "moves">> \o ms : ms \in MoveLists(At(f), MaxMoves)} : f \in Fens}

\* GameState::default()
InitUci ==
    /\ game \in 1..Len(Games)
    /\ rootPos = StartPos
    /\ history = << >>
    /\ mode = "time"
    /\ max_depth = 0
    /\ phase = "uci"
    /\ saved = << >>
    /\ InitSearch
    /\ board = {}
    /\ evals = << >>

\* main.rs:48-50: a position command
PositionCommand ==
    /\ \E position \in PositionLines :
          /\ saved' = position
          /\ rootPos' = update_position(position).chess
          /\ reps' = update_position(position).previously_seen_hashes
    /\ phase' = "positioned"
    /\ UNCHANGED <<game, mode, max_depth, history, expired, tt, stack, ret, dpc, moves,
                   snapshot, index, depth, best_score, result>>
    /\ UNCHANGED <<ghostVars, evalVars>>

NextUci == PositionCommand

SpecUci == InitUci /\ [][NextUci]_vars

\* the move tokens of the last position command
GameMoves == IF Len(saved) >= 2 THEN SubSeq(saved, 3, Len(saved)) ELSE << >>

\* the positions of the game: GamePath[0] is the initial position,
\* GamePath[k] the one the k-th move produced
GamePath ==
    LET first == IF saved[1] = StartposToken THEN StartPos ELSE saved[1]
        RECURSIVE At(_)
        At(k) == IF k = 0 THEN first ELSE LegalMoves(At(k - 1))[GameMoves[k]].to
    IN  [k \in 0..Len(GameMoves) |-> At(k)]

\* the number of the last zeroing move of the game, 0 when there is none
LastZeroing ==
    LET zeroing == {k \in 1..Len(GameMoves) :
                       IsZeroing(LegalMoves(GamePath[k - 1])[GameMoves[k]])}
    IN  IF zeroing = {} THEN 0 ELSE CHOOSE k \in zeroing : \A j \in zeroing : j <= k

\* C22 (game-history bookkeeping): after a position command
\* previously_seen_hashes holds, in game order, exactly the hashes of the
\* positions from the one the last zeroing move produced (the initial
\* position when no move was zeroing) up to and including the current
\* position, which is game_state.chess; earlier positions are absent.
C22_HistorySinceZeroing ==
    phase = "positioned" =>
       /\ rootPos = GamePath[Len(GameMoves)]
       /\ Len(reps) = Len(GameMoves) - LastZeroing + 1
       /\ \A i \in 1..Len(reps) : reps[i] = HashOf(GamePath[LastZeroing + i - 1])

\* a quiet move, then a zeroing move, then a quiet move
C22_Witness ==
    /\ phase = "positioned"
    /\ Len(GameMoves) = 3
    /\ LastZeroing = 2
    /\ Len(reps) = 2
    /\ ~IsZeroing(LegalMoves(GamePath[0])[GameMoves[1]])

=============================================================================
